---- MODULE Spec2Model ----
(***************************************************************************)
(* Model of arc_logger_monitor.py: the search lifecycle against the        *)
(* ArcSight Logger appliance (create_logger_search and the request         *)
(* helpers it calls) and the reconciliation of the fetched rows against    *)
(* the device inventory (the module-level script).                         *)
(*                                                                         *)
(* Strings that the program cuts, trims, lower-cases or joins are modelled *)
(* as sequences of one-character strings, so that split, strip, lower,     *)
(* replace and format are computed character by character.                 *)
(***************************************************************************)
EXTENDS Integers, Sequences, FiniteSets

VARIABLES
    \* ---- create_logger_search ----
    pc,                    \* position in create_logger_search
    trace,                 \* requests sent, responses received and sleeps, in order
    login_token,           \* token taken from the login envelope
    search_id,             \* id generated from the clock at submission
    status_response,       \* last value returned by status()
    hit_count,             \* status_response['hit'] of the 'complete' response
    offset,                \* pagination offset
    combined_result_list,  \* rows appended so far
    polls,                 \* status requests issued so far
    applianceDefault,      \* page size the appliance uses when no 'length' is sent
    \* ---- module-level script ----
    mpc,                   \* position in the module-level script
    devices,               \* the inventory text
    raw_results,           \* the list create_logger_search returns
    normalized_devices_from_list_with_count,
    normalized_devices_from_list_without_count,
    results,
    total_log_count,
    normalized_results,
    normalized_results_with_count,
    log_devices,
    no_log_devices,
    normalized_devices_with_count,
    no_log_devices_with_count

lvars == <<pc, trace, login_token, search_id, status_response, hit_count,
           offset, combined_result_list, polls, applianceDefault>>

rvars == <<mpc, devices, raw_results, normalized_devices_from_list_with_count,
           normalized_devices_from_list_without_count, results, total_log_count,
           normalized_results, normalized_results_with_count, log_devices,
           no_log_devices, normalized_devices_with_count, no_log_devices_with_count>>

vars == <<lvars, rvars>>

(***************************************************************************)
(* Bounds of the model.                                                    *)
(***************************************************************************)
MaxPolls == 3      \* status requests explored per run
MaxHit == 60       \* largest hit count the appliance reports

Min(a, b) == IF a < b THEN a ELSE b

(***************************************************************************)
(* Transport: post()                                                       *)
(***************************************************************************)
\* An HTTP response is [status_code, body]; body is the parsed form of the
\* text, or NoBody for an empty text.
NoBody == [empty |-> TRUE]

\* The value post() hands back to its caller.
\*   json      : json.loads(response.text)
\*   text      : response.text of a non-200 success (HTTP 204: the empty text)
\*   Response  : the untouched Response object (HTTP 200 with an empty text)
\*   HTTPError : the exception object, RETURNED by the except branch
post(httpResponse) ==
    IF httpResponse.status_code >= 400
    THEN [tag |-> "HTTPError", status_code |-> httpResponse.status_code]
    ELSE IF httpResponse.status_code = 200
         THEN IF httpResponse.body # NoBody
              THEN [tag |-> "json", val |-> httpResponse.body]
              ELSE [tag |-> "Response", status_code |-> 200]
         ELSE [tag |-> "text", status_code |-> httpResponse.status_code]

\* obj[key] as Python evaluates it: only a parsed JSON object can be indexed.
Subscriptable(ret, key) == ret.tag = "json" /\ key \in DOMAIN ret.val

(***************************************************************************)
(* Request helpers: the payload each one posts.                            *)
(***************************************************************************)
Request(url, payload) == [ev |-> "request", url |-> url, payload |-> payload]
Response(url, ret) == [ev |-> "response", url |-> url, ret |-> ret]
Sleep(ms) == [ev |-> "sleep", ms |-> ms]

\* {**base, **kwargs}
Merge(base, kwargs) ==
    [k \in DOMAIN base \cup DOMAIN kwargs |->
        IF k \in DOMAIN kwargs THEN kwargs[k] ELSE base[k]]

login(username, password) ==
    Request("/core-service/rest/LoginService/login",
            [x \in {"log.login"} |-> [user |-> username, pass |-> password]])

\* a logout helper that kept the URL of the helper it was copied from
logout_wrongUrl(authtoken) ==
    Request("/server/search/close",
            [x \in {"log.logout"} |-> [authToken |-> authtoken]])

logout(authtoken) ==
    Request("/core-service/rest/LoginService/logout",
            [x \in {"log.logout"} |-> [authToken |-> authtoken]])

search(authtoken, sid, kwargs) ==
    Request("/server/search",
            Merge([search_session_id |-> sid, user_session_id |-> authtoken,
                   query |-> "top6000"], kwargs))

\* a status helper that takes the id from the clock again, a millisecond
\* later, instead of using the search_id it was given
status_idFromClock(authtoken, sid) ==
    Request("/server/search/status",
            [search_session_id |-> sid + 1, user_session_id |-> authtoken])

status(authtoken, sid) ==
    Request("/server/search/status",
            [search_session_id |-> sid, user_session_id |-> authtoken])

chart_data(authtoken, sid, kwargs) ==
    Request("/server/search/chart_data",
            Merge([search_session_id |-> sid, user_session_id |-> authtoken], kwargs))

close(authtoken, sid) ==
    Request("/server/search/close",
            [search_session_id |-> sid, user_session_id |-> authtoken])

(***************************************************************************)
(* The appliance, as far as the client can observe it.                     *)
(***************************************************************************)
Tokens == {"tokA", "tokB"}
ClockMillis == {1001, 1002}             \* int(round(time.time() * 1000))
NonTerminalStatuses == {"running", "starting"}
ApplianceDefaultLengths == {25, 100}    \* page size used when 'length' is absent

LoginResponses ==
    { [status_code |-> 200,
       body |-> [x \in {"log.loginResponse"} |-> [x2 \in {"log.return"} |-> t]]] : t \in Tokens }
    \cup { [status_code |-> 200, body |-> [errors |-> "denied"]],
           [status_code |-> 200, body |-> [errors |-> "log.loginResponse"]],
           [status_code |-> 200,
            body |-> [x \in {"log.loginResponse"} |-> [x2 \in {"log.error"} |-> "denied"]]],
           [status_code |-> 204, body |-> NoBody],
           [status_code |-> 401, body |-> NoBody] }

SearchResponses ==
    { [status_code |-> 200, body |-> [sessionId |-> "s1"]],
      [status_code |-> 500, body |-> NoBody] }

StatusResponses ==
    { [status_code |-> 200, body |-> [status |-> s, hit |-> 0]] : s \in NonTerminalStatuses \cup {"error"} }
    \cup { [status_code |-> 200, body |-> [status |-> "complete", hit |-> h]] : h \in 0..MaxHit }
    \cup { [status_code |-> 500, body |-> NoBody] }

\* The ordered result set of a search with h hits: rows are named by their rank.
ApplianceRows(h) == [i \in 1..h |-> i]

\* The page the appliance cuts for a chart_data payload: it reads the
\* parameters 'offset' and 'length' and falls back to its defaults for a
\* parameter the payload does not carry.
AppliancePage(rows, payload, defaultLength) ==
    LET off == IF "offset" \in DOMAIN payload THEN payload.offset ELSE 0
        len == IF "length" \in DOMAIN payload THEN payload.length ELSE defaultLength
    IN  SubSeq(rows, off + 1, Min(off + len, Len(rows)))

ChartResponses(payload, h, defaultLength) ==
    { [status_code |-> 200,
       body |-> [results |-> AppliancePage(ApplianceRows(h), payload, defaultLength)]],
      [status_code |-> 500, body |-> NoBody] }

NoContentResponses ==
    { [status_code |-> 204, body |-> NoBody], [status_code |-> 500, body |-> NoBody] }

(***************************************************************************)
(* create_logger_search                                                    *)
(***************************************************************************)
lenght == 25   \* the page size, under the name the source gives it

NoToken == "none"
NoResponse == [tag |-> "unset"]

LifecycleStart ==
    /\ pc = "login"
    /\ trace = <<>>
    /\ login_token = NoToken
    /\ search_id = 0
    /\ status_response = NoResponse
    /\ hit_count = 0
    /\ offset = 0
    /\ combined_result_list = <<>>
    /\ polls = 0

LifecycleInit ==
    /\ LifecycleStart
    /\ applianceDefault \in ApplianceDefaultLengths

\* line 325: "log.loginResponse" in str(token). The text of a parsed body
\* contains the name when it is one of its keys or one of its string values;
\* the text of an HTTPError, of an empty text or of a Response object does not.
EnvelopeTextIn(token) ==
    /\ token.tag = "json"
    /\ \/ "log.loginResponse" \in DOMAIN token.val
       \/ \E k \in DOMAIN token.val : token.val[k] = "log.loginResponse"

\* line 325-332: what the function does with the value login() returned
\*   "crashed" : the text test passed but token['log.loginResponse']['log.return']
\*               raises KeyError
LoginOutcome(token) ==
    IF ~EnvelopeTextIn(token) THEN "exited"
    ELSE IF /\ Subscriptable(token, "log.loginResponse")
            /\ "log.return" \in DOMAIN token.val["log.loginResponse"]
         THEN "ok"
         ELSE "crashed"

\* a login branch that sets api_connectivity to False and goes on
LoginNextPc_noExit(outcome) ==
    CASE outcome = "ok" -> "submit"
      [] outcome = "exited" -> "submit"
      [] outcome = "crashed" -> "crashed"

\* line 326-332: the if branch falls through to the submission, the else
\* branch calls exit(1)
LoginNextPc(outcome) ==
    CASE outcome = "ok" -> "submit"
      [] outcome = "exited" -> "exited"
      [] outcome = "crashed" -> "crashed"

\* line 322-332: login, then the envelope test; exit(1) when it is missing
Login ==
    /\ pc = "login"
    /\ \E http \in LoginResponses :
        LET req == login("admin", "secret")
            token == post(http)
            outcome == LoginOutcome(token)
        IN  /\ trace' = trace \o <<req, Response(req.url, token)>>
            /\ login_token' = IF outcome = "ok"
                              THEN token.val["log.loginResponse"]["log.return"]
                              ELSE login_token
            /\ pc' = LoginNextPc(outcome)
    /\ UNCHANGED <<search_id, status_response, hit_count, offset,
                   combined_result_list, polls, applianceDefault>>
    /\ UNCHANGED rvars

\* line 337-348: generate search_id, submit, read sessionId, settle delay
Submit ==
    /\ pc = "submit"
    /\ \E now \in ClockMillis, http \in SearchResponses :
        LET req == search(login_token, now,
                          [start_time |-> "t-10m", end_time |-> "t", local_search |-> FALSE])
            search_response == post(http)
        IN  /\ search_id' = now
            /\ IF Subscriptable(search_response, "sessionId")
               THEN /\ trace' = trace \o <<req, Response(req.url, search_response), Sleep(150)>>
                    /\ pc' = "poll"
               ELSE /\ trace' = trace \o <<req, Response(req.url, search_response)>>
                    /\ pc' = "crashed"
    /\ UNCHANGED <<login_token, status_response, hit_count, offset,
                   combined_result_list, polls, applianceDefault>>
    /\ UNCHANGED rvars

\* a poll loop that leaves the loop on 'error' as it does on 'complete'
PollOutcome_errorBreaks(ret) ==
    IF ~Subscriptable(ret, "status") THEN "crashed"
    ELSE IF ret.val.status \in {"complete", "error"} THEN "break"
    ELSE "sleep"

\* a poll loop that takes a status request that failed for a non-terminal
\* status and asks again
PollOutcome_retryOnFailure(ret) ==
    IF ~Subscriptable(ret, "status") THEN "sleep"
    ELSE IF ret.val.status = "complete" THEN "break"
    ELSE IF ret.val.status = "error" THEN "exited"
    ELSE "sleep"

\* a poll loop that leaves the loop on the first status that is not 'error'
PollOutcome_anyStatusBreaks(ret) ==
    IF ~Subscriptable(ret, "status") THEN "crashed"
    ELSE IF ret.val.status = "error" THEN "exited"
    ELSE "break"

\* line 351-357: what one iteration does with the value status() returned
\*   "crashed" : status_response['status'] raises (the value is not a dict)
PollOutcome(ret) ==
    IF ~Subscriptable(ret, "status") THEN "crashed"
    ELSE IF ret.val.status = "complete" THEN "break"
    ELSE IF ret.val.status = "error" THEN "exited"
    ELSE "sleep"

\* a poll loop that sleeps before it looks at the status
PollEvents_sleepBeforeCheck(req, ret) ==
    IF PollOutcome(ret) = "crashed"
    THEN <<req, Response(req.url, ret)>>
    ELSE <<req, Response(req.url, ret), Sleep(5000)>>

\* line 350-357: the events of one iteration; time.sleep(5) is reached only
\* when neither the break nor the exit was taken
PollEvents(req, ret) ==
    IF PollOutcome(ret) = "sleep"
    THEN <<req, Response(req.url, ret), Sleep(5000)>>
    ELSE <<req, Response(req.url, ret)>>

\* a pagination loop whose condition also holds when the offset has reached
\* the hit count
MorePages_inclusive(off, hit) == off <= hit

\* line 363: while offset < hit_count
MorePages(off, hit) == off < hit

\* a poll loop that gives up after two attempts
LoopCondition_boundedAttempts(attempts) == attempts < 2

\* line 349: while True -- the loop condition looks at no attempt count
LoopCondition(attempts) == TRUE

\* line 349-360: where an iteration with the given outcome goes next; leaving
\* the loop leads to the read of the hit count and the first evaluation of
\* the pagination loop condition
PollNextPc(outcome, attempts, hit) ==
    CASE outcome = "crashed" -> "crashed"
      [] outcome = "exited" -> "exited"
      [] outcome = "sleep" /\ LoopCondition(attempts) -> "poll"
      [] OTHER -> IF MorePages(0, hit) THEN "page" ELSE "close"

\* line 349-360: one iteration of the poll loop; on 'complete' the hit count
\* is read and the pagination loop condition is evaluated for offset 0
Poll ==
    /\ pc = "poll"
    /\ polls < MaxPolls
    /\ \E http \in StatusResponses :
        LET req == status(login_token, search_id)
            ret == post(http)
            outcome == PollOutcome(ret)
        IN  /\ status_response' = ret
            /\ polls' = polls + 1
            /\ trace' = trace \o PollEvents(req, ret)
            /\ pc' = PollNextPc(outcome, polls', IF outcome \in {"break", "sleep"} THEN ret.val.hit ELSE 0)
            /\ hit_count' = IF pc' \in {"page", "close"} THEN ret.val.hit ELSE hit_count
    /\ UNCHANGED <<login_token, search_id, offset, combined_result_list, applianceDefault>>
    /\ UNCHANGED rvars

\* line 363-367: one iteration of the pagination loop
FetchPage ==
    /\ pc = "page"
    /\ MorePages(offset, hit_count)
    /\ LET req == chart_data(login_token, search_id, [offset |-> offset, lenght |-> lenght])
       IN  \E http \in ChartResponses(req.payload, hit_count, applianceDefault) :
            LET tmp == post(http)
            IN  /\ trace' = trace \o <<req, Response(req.url, tmp)>>
                /\ offset' = offset + lenght
                /\ IF Subscriptable(tmp, "results")
                   THEN /\ combined_result_list' = combined_result_list \o tmp.val.results
                        /\ pc' = IF MorePages(offset', hit_count) THEN "page" ELSE "close"
                   ELSE /\ UNCHANGED combined_result_list
                        /\ pc' = "crashed"
    /\ UNCHANGED <<login_token, search_id, status_response, hit_count, polls, applianceDefault>>
    /\ UNCHANGED rvars

\* a cleanup call whose failure is raised to the caller
AfterDropped_raised(ret, nextPc) ==
    IF ret.tag = "HTTPError" THEN "crashed" ELSE nextPc

\* line 372-373: the value close() or logout() returned is not looked at
AfterDropped(ret, nextPc) == nextPc

\* line 372: close; the returned value is dropped
Close ==
    /\ pc = "close"
    /\ \E http \in NoContentResponses :
        LET req == close(login_token, search_id)
            ret == post(http)
        IN  /\ trace' = trace \o <<req, Response(req.url, ret)>>
            /\ pc' = AfterDropped(ret, "logout")
    /\ UNCHANGED <<login_token, search_id, status_response, hit_count, offset,
                   combined_result_list, polls, applianceDefault>>
    /\ UNCHANGED rvars

\* line 373-374: logout; the returned value is dropped; return the list
Logout ==
    /\ pc = "logout"
    /\ \E http \in NoContentResponses :
        LET req == logout(login_token)
            ret == post(http)
        IN  /\ trace' = trace \o <<req, Response(req.url, ret)>>
            /\ pc' = AfterDropped(ret, "returned")
    /\ UNCHANGED <<login_token, search_id, status_response, hit_count, offset,
                   combined_result_list, polls, applianceDefault>>
    /\ UNCHANGED rvars

RIdle ==
    /\ mpc = "idle"
    /\ devices = <<>>
    /\ raw_results = <<>>
    /\ normalized_devices_from_list_with_count = <<>>
    /\ normalized_devices_from_list_without_count = <<>>
    /\ results = <<>>
    /\ total_log_count = 0
    /\ normalized_results = <<>>
    /\ normalized_results_with_count = <<>>
    /\ log_devices = <<>>
    /\ no_log_devices = <<>>
    /\ normalized_devices_with_count = <<>>
    /\ no_log_devices_with_count = <<>>

Init == LifecycleInit /\ RIdle

Next == Login \/ Submit \/ Poll \/ FetchPage \/ Close \/ Logout

Spec == Init /\ [][Next]_vars

(***************************************************************************)
(* The same run without a limit on the iterations of the poll loop.  The   *)
(* events of the first MaxPolls iterations are recorded in the trace by    *)
(* Poll; a later iteration is the same code, but its events are not        *)
(* recorded, and polls alternates between MaxPolls and MaxPolls + 1 so     *)
(* that every iteration is a step.                                         *)
(*                                                                         *)
(* Fairness: the interpreter executes the function statement by statement, *)
(* so a step that is possible is eventually taken, provided that every     *)
(* request the client sends comes back (as a response or as a failure).    *)
(***************************************************************************)
PollUnrecorded ==
    /\ pc = "poll"
    /\ polls >= MaxPolls
    /\ \E http \in StatusResponses :
        LET ret == post(http)
            outcome == PollOutcome(ret)
        IN  /\ status_response' = ret
            /\ polls' = IF polls = MaxPolls THEN MaxPolls + 1 ELSE MaxPolls
            /\ pc' = PollNextPc(outcome, MaxPolls + 1, IF outcome \in {"break", "sleep"} THEN ret.val.hit ELSE 0)
            /\ hit_count' = IF pc' \in {"page", "close"} THEN ret.val.hit ELSE hit_count
    /\ UNCHANGED <<trace, login_token, search_id, offset, combined_result_list, applianceDefault>>
    /\ UNCHANGED rvars

LiveNext == Login \/ Submit \/ Poll \/ PollUnrecorded \/ FetchPage \/ Close \/ Logout

LiveSpec == Init /\ [][LiveNext]_vars /\ WF_vars(LiveNext)

(***************************************************************************)
(* Two runs of create_logger_search against the same appliance, their      *)
(* steps interleaved in any order.  In this specification pc, trace,       *)
(* login_token, search_id, status_response, hit_count, offset,             *)
(* combined_result_list and polls hold one value per run.                  *)
(*                                                                         *)
(* time.time() is read in tenths of a millisecond, so that two readings    *)
(* can differ and still round to the same millisecond.                     *)
(***************************************************************************)
Runs == {"runA", "runB"}

\* time.time(), in 1/10 ms: 1001.4 ms, and the two ties 1001.5 ms and 1002.5 ms
ClockReadings == {10014, 10015, 10025}

ClockRead(t) == [ev |-> "clock", t |-> t]

\* Python's round(): to the nearest integer, a tie to the even neighbour
RoundHalfEven(n, d) ==
    LET q == n \div d
        r == n % d
    IN  IF 2 * r < d THEN q
        ELSE IF 2 * r > d THEN q + 1
        ELSE IF q % 2 = 0 THEN q ELSE q + 1

\* a search_id taken from the clock in seconds (the factor 1000 left out)
SearchIdOf_seconds(t) == RoundHalfEven(t, 10000)

\* line 342: int(round(time.time() * 1000))
SearchIdOf(t) == RoundHalfEven(t, 10)

\* the appliance gives each session a token of its own
RunToken == [r \in Runs |-> IF r = "runA" THEN "tokA" ELSE "tokB"]

TwoRunLoginResponses(r) ==
    {h \in LoginResponses :
        LoginOutcome(post(h)) = "ok" =>
            h.body["log.loginResponse"]["log.return"] = RunToken[r]}

\* the status responses of this specification: one non-terminal status, and
\* the hit counts of no page and of two pages
TwoRunStatusResponses ==
    {h \in StatusResponses :
        h.status_code = 200 =>
            /\ h.body.status \in {"running", "error", "complete"}
            /\ h.body.status = "complete" => h.body.hit \in {0, lenght + 1}}

TwoRunInit ==
    /\ pc = [r \in Runs |-> "login"]
    /\ trace = [r \in Runs |-> <<>>]
    /\ login_token = [r \in Runs |-> NoToken]
    /\ search_id = [r \in Runs |-> 0]
    /\ status_response = [r \in Runs |-> NoResponse]
    /\ hit_count = [r \in Runs |-> 0]
    /\ offset = [r \in Runs |-> 0]
    /\ combined_result_list = [r \in Runs |-> <<>>]
    /\ polls = [r \in Runs |-> 0]
    /\ applianceDefault = lenght
    /\ RIdle

\* line 322-332
RunLogin(r) ==
    /\ pc[r] = "login"
    /\ \E http \in TwoRunLoginResponses(r) :
        LET req == login("admin", "secret")
            token == post(http)
            outcome == LoginOutcome(token)
        IN  /\ trace' = [trace EXCEPT ![r] = @ \o <<req, Response(req.url, token)>>]
            /\ login_token' = [login_token EXCEPT ![r] =
                                  IF outcome = "ok"
                                  THEN token.val["log.loginResponse"]["log.return"]
                                  ELSE @]
            /\ pc' = [pc EXCEPT ![r] = LoginNextPc(outcome)]
    /\ UNCHANGED <<search_id, status_response, hit_count, offset,
                   combined_result_list, polls, applianceDefault>>
    /\ UNCHANGED rvars

\* line 337-348
RunSubmit(r) ==
    /\ pc[r] = "submit"
    /\ \E t \in ClockReadings, http \in SearchResponses :
        LET req == search(login_token[r], SearchIdOf(t),
                          [start_time |-> "t-10m", end_time |-> "t", local_search |-> FALSE])
            search_response == post(http)
        IN  /\ search_id' = [search_id EXCEPT ![r] = SearchIdOf(t)]
            /\ IF Subscriptable(search_response, "sessionId")
               THEN /\ trace' = [trace EXCEPT ![r] =
                                    @ \o <<ClockRead(t), req, Response(req.url, search_response), Sleep(150)>>]
                    /\ pc' = [pc EXCEPT ![r] = "poll"]
               ELSE /\ trace' = [trace EXCEPT ![r] =
                                    @ \o <<ClockRead(t), req, Response(req.url, search_response)>>]
                    /\ pc' = [pc EXCEPT ![r] = "crashed"]
    /\ UNCHANGED <<login_token, status_response, hit_count, offset,
                   combined_result_list, polls, applianceDefault>>
    /\ UNCHANGED rvars

\* line 349-360
RunPoll(r) ==
    /\ pc[r] = "poll"
    /\ polls[r] < MaxPolls
    /\ \E http \in TwoRunStatusResponses :
        LET req == status(login_token[r], search_id[r])
            ret == post(http)
            outcome == PollOutcome(ret)
            nextPc == PollNextPc(outcome, polls[r] + 1,
                                 IF outcome \in {"break", "sleep"} THEN ret.val.hit ELSE 0)
        IN  /\ status_response' = [status_response EXCEPT ![r] = ret]
            /\ polls' = [polls EXCEPT ![r] = @ + 1]
            /\ trace' = [trace EXCEPT ![r] = @ \o PollEvents(req, ret)]
            /\ pc' = [pc EXCEPT ![r] = nextPc]
            /\ hit_count' = [hit_count EXCEPT ![r] =
                                IF nextPc \in {"page", "close"} THEN ret.val.hit ELSE @]
    /\ UNCHANGED <<login_token, search_id, offset, combined_result_list, applianceDefault>>
    /\ UNCHANGED rvars

\* line 363-367
RunFetchPage(r) ==
    /\ pc[r] = "page"
    /\ MorePages(offset[r], hit_count[r])
    /\ LET req == chart_data(login_token[r], search_id[r],
                             [offset |-> offset[r], lenght |-> lenght])
       IN  \E http \in ChartResponses(req.payload, hit_count[r], applianceDefault) :
            LET tmp == post(http)
            IN  /\ trace' = [trace EXCEPT ![r] = @ \o <<req, Response(req.url, tmp)>>]
                /\ offset' = [offset EXCEPT ![r] = @ + lenght]
                /\ IF Subscriptable(tmp, "results")
                   THEN /\ combined_result_list' =
                            [combined_result_list EXCEPT ![r] = @ \o tmp.val.results]
                        /\ pc' = [pc EXCEPT ![r] =
                                    IF MorePages(offset'[r], hit_count[r]) THEN "page" ELSE "close"]
                   ELSE /\ UNCHANGED combined_result_list
                        /\ pc' = [pc EXCEPT ![r] = "crashed"]
    /\ UNCHANGED <<login_token, search_id, status_response, hit_count, polls, applianceDefault>>
    /\ UNCHANGED rvars

\* line 372
RunClose(r) ==
    /\ pc[r] = "close"
    /\ \E http \in NoContentResponses :
        LET req == close(login_token[r], search_id[r])
            ret == post(http)
        IN  /\ trace' = [trace EXCEPT ![r] = @ \o <<req, Response(req.url, ret)>>]
            /\ pc' = [pc EXCEPT ![r] = AfterDropped(ret, "logout")]
    /\ UNCHANGED <<login_token, search_id, status_response, hit_count, offset,
                   combined_result_list, polls, applianceDefault>>
    /\ UNCHANGED rvars

\* line 373-374
RunLogout(r) ==
    /\ pc[r] = "logout"
    /\ \E http \in NoContentResponses :
        LET req == logout(login_token[r])
            ret == post(http)
        IN  /\ trace' = [trace EXCEPT ![r] = @ \o <<req, Response(req.url, ret)>>]
            /\ pc' = [pc EXCEPT ![r] = AfterDropped(ret, "returned")]
    /\ UNCHANGED <<login_token, search_id, status_response, hit_count, offset,
                   combined_result_list, polls, applianceDefault>>
    /\ UNCHANGED rvars

TwoRunNext ==
    \E r \in Runs :
        \/ RunLogin(r)
        \/ RunSubmit(r)
        \/ RunPoll(r)
        \/ RunFetchPage(r)
        \/ RunClose(r)
        \/ RunLogout(r)

TwoRunSpec == TwoRunInit /\ [][TwoRunNext]_vars

(***************************************************************************)
(* wait: the helper that polls the status of a search until it is          *)
(* 'complete'.  It runs within a session that is already open: the token   *)
(* and the search_id are its arguments.                                    *)
(***************************************************************************)
WaitStart ==
    /\ pc = "wait_first"
    /\ trace = <<>>
    /\ login_token \in Tokens
    /\ search_id \in ClockMillis
    /\ status_response = NoResponse
    /\ hit_count = 0
    /\ offset = 0
    /\ combined_result_list = <<>>
    /\ polls = 0
    /\ applianceDefault = lenght
    /\ RIdle

\* line 153 and 155: response['status'] != 'complete'
\*   "crashed" : response['status'] raises (the value is not a dict)
WaitOutcome(response) ==
    IF ~Subscriptable(response, "status") THEN "crashed"
    ELSE IF response.val.status # "complete" THEN "again"
    ELSE "complete"

WaitNextPc(outcome) ==
    CASE outcome = "crashed" -> "crashed"
      [] outcome = "again" -> "wait_loop"
      [] outcome = "complete" -> "wait_returned"

\* line 152-153: the first status request, then the loop condition
WaitFirst ==
    /\ pc = "wait_first"
    /\ \E http \in StatusResponses :
        LET req == status(login_token, search_id)
            response == post(http)
        IN  /\ status_response' = response
            /\ polls' = 1
            /\ trace' = trace \o <<req, Response(req.url, response)>>
            /\ pc' = WaitNextPc(WaitOutcome(response))
    /\ UNCHANGED <<login_token, search_id, hit_count, offset, combined_result_list,
                   applianceDefault>>
    /\ UNCHANGED rvars

\* line 154-156, then 153 or 157: one iteration of the loop body; the sleep
\* is taken when the new response is not 'complete'; then the loop condition
\* is evaluated on the same response
WaitIteration ==
    /\ pc = "wait_loop"
    /\ polls < MaxPolls
    /\ \E http \in StatusResponses :
        LET req == status(login_token, search_id)
            response == post(http)
            outcome == WaitOutcome(response)
        IN  /\ status_response' = response
            /\ polls' = polls + 1
            /\ trace' = trace \o <<req, Response(req.url, response)>>
                              \o (IF outcome = "again" THEN <<Sleep(5000)>> ELSE <<>>)
            /\ pc' = WaitNextPc(outcome)
    /\ UNCHANGED <<login_token, search_id, hit_count, offset, combined_result_list,
                   applianceDefault>>
    /\ UNCHANGED rvars

WaitNext == WaitFirst \/ WaitIteration

WaitSpec == WaitStart /\ [][WaitNext]_vars

(***************************************************************************)
(* Python string operations, on sequences of characters.                   *)
(***************************************************************************)
WhitespaceChars == {" ", "\t", "\n"}
UpperToLower == [c \in {"A", "B", "P", "H"} |->
                    CASE c = "A" -> "a" [] c = "B" -> "b" [] c = "P" -> "p" [] c = "H" -> "h"]
DigitValue == [c \in {"0", "1", "2", "3", "4", "5", "6", "7", "8", "9"} |->
                    CASE c = "0" -> 0 [] c = "1" -> 1 [] c = "2" -> 2 [] c = "3" -> 3
                      [] c = "4" -> 4 [] c = "5" -> 5 [] c = "6" -> 6 [] c = "7" -> 7
                      [] c = "8" -> 8 [] c = "9" -> 9]

SetMin(S) == CHOOSE x \in S : \A y \in S : x <= y
SetMax(S) == CHOOSE x \in S : \A y \in S : x >= y

\* str.lower()
lower(s) == [i \in 1..Len(s) |-> IF s[i] \in DOMAIN UpperToLower THEN UpperToLower[s[i]] ELSE s[i]]

\* str.strip(): drop the leading and the trailing whitespace
strip(s) ==
    LET solid == {i \in 1..Len(s) : s[i] \notin WhitespaceChars}
    IN  IF solid = {} THEN <<>> ELSE SubSeq(s, SetMin(solid), SetMax(solid))

\* str.replace(ch, ''): drop every occurrence of ch
remove(s, ch) == SelectSeq(s, LAMBDA c : c # ch)

\* str.split(sep) for a one-character separator
RECURSIVE split(_, _)
split(s, sep) ==
    LET hits == {i \in 1..Len(s) : s[i] = sep}
    IN  IF hits = {} THEN <<s>>
        ELSE <<SubSeq(s, 1, SetMin(hits) - 1)>>
                 \o split(SubSeq(s, SetMin(hits) + 1, Len(s)), sep)

\* "{0},{1},{2},{3}".format(a, b, c, d)
format4(a, b, c, d) == a \o <<",">> \o b \o <<",">> \o c \o <<",">> \o d
\* "{0},{1},{2},{3},{4}".format(a, b, c, d, e)
format5(a, b, c, d, e) == format4(a, b, c, d) \o <<",">> \o e

\* int(s) for s a decimal string, surrounding whitespace allowed
IsDecimal(s) == strip(s) # <<>> /\ \A i \in 1..Len(strip(s)) : strip(s)[i] \in DOMAIN DigitValue
RECURSIVE DecimalValue(_)
DecimalValue(d) ==
    IF d = <<>> THEN 0
    ELSE 10 * DecimalValue(SubSeq(d, 1, Len(d) - 1)) + DigitValue[d[Len(d)]]
int(s) == DecimalValue(strip(s))

Range(f) == {f[i] : i \in DOMAIN f}

(***************************************************************************)
(* Functions of the module-level script.                                   *)
(***************************************************************************)
\* line 377-382
RECURSIVE total_loop(_, _)
total_loop(rows, total_count) ==
    IF rows = <<>> THEN total_count
    ELSE total_loop(Tail(rows), total_count + int(Head(rows)[5]))

\* a total that counts each device once: rows repeating an earlier row's
\* identity fields are skipped
RECURSIVE total_loop_once(_, _, _)
total_loop_once(rows, seen, total_count) ==
    IF rows = <<>> THEN total_count
    ELSE LET id == [f \in 1..4 |-> strip(lower(Head(rows)[f]))]
         IN  total_loop_once(Tail(rows), seen \cup {id},
                             IF id \in seen THEN total_count
                             ELSE total_count + int(Head(rows)[5]))
calculate_total_event_count_oncePerDevice(rows) == total_loop_once(rows, {}, 0)

calculate_total_event_count(rows) == total_loop(rows, 0)

\* a membership test that gives up at the first element that differs
test_device_firstOnly(device_from_list, normalized_devices_from_result) ==
    /\ normalized_devices_from_result # <<>>
    /\ device_from_list = Head(normalized_devices_from_result)

\* line 385-396
RECURSIVE test_device(_, _)
test_device(device_from_list, normalized_devices_from_result) ==
    IF normalized_devices_from_result = <<>> THEN FALSE
    ELSE IF device_from_list = Head(normalized_devices_from_result) THEN TRUE
    ELSE test_device(device_from_list, Tail(normalized_devices_from_result))

\* line 399-408; the value is given as str() makes it at line 547, so the
\* integer 0 of line 408 is the string "0"
RECURSIVE get_device_event_count(_, _)
get_device_event_count(normalized_device, with_count) ==
    IF with_count = <<>> THEN <<"0">>
    ELSE LET dummy == split(Head(with_count), ",")
             count == dummy[5]
             result == format4(dummy[1], dummy[2], dummy[3], dummy[4])
         IN  IF result = normalized_device THEN count
             ELSE get_device_event_count(normalized_device, Tail(with_count))

\* a normalisation of the result fields that lower-cases but does not trim
NormalizeField_noStrip(field) == lower(field)

\* line 415-419: str(result[i]).lower().strip()
NormalizeField(field) == strip(lower(field))

\* line 411-426
normalize_result(rows) ==
    [normalized_results |->
        [i \in 1..Len(rows) |->
            format4(NormalizeField(rows[i][1]), NormalizeField(rows[i][2]),
                    NormalizeField(rows[i][3]), NormalizeField(rows[i][4]))],
     normalized_results_with_count |->
        [i \in 1..Len(rows) |->
            format5(NormalizeField(rows[i][1]), NormalizeField(rows[i][2]),
                    NormalizeField(rows[i][3]), NormalizeField(rows[i][4]),
                    NormalizeField(rows[i][5]))]]

\* str.replace(ch, '', 1): drop the first occurrence of ch only
removeFirst(s, ch) ==
    LET hits == {i \in 1..Len(s) : s[i] = ch}
    IN  IF hits = {} THEN s
        ELSE SubSeq(s, 1, SetMin(hits) - 1) \o SubSeq(s, SetMin(hits) + 1, Len(s))

\* an inventory normalisation that deletes one quote character per call
RECURSIVE normalize_devices_firstQuoteOnly(_)
normalize_devices_firstQuoteOnly(lines) ==
    IF lines = <<>> THEN <<>>
    ELSE LET device == lower(strip(removeFirst(Head(lines), "\"")))
         IN  (IF device # <<>> THEN <<device>> ELSE <<>>)
                 \o normalize_devices_firstQuoteOnly(Tail(lines))

\* line 442-453
RECURSIVE normalize_devices(_)
normalize_devices(lines) ==
    IF lines = <<>> THEN <<>>
    ELSE LET device == lower(strip(remove(Head(lines), "\"")))
         IN  (IF device # <<>> THEN <<device>> ELSE <<>>) \o normalize_devices(Tail(lines))

\* line 476-477: tmp[3] exists only when the line has four fields
HasFourFields(device) == Len(split(device, ",")) >= 4

\* line 472-479
remove_count_from_devices(with_count) ==
    [i \in 1..Len(with_count) |->
        LET tmp == split(with_count[i], ",")
        IN  format4(tmp[1], tmp[2], tmp[3], tmp[4])]

\* a partition loop whose second append is not under the else
no_log_loop_always(inventory, nres) == inventory

\* line 535-541: the devices the loop appends to log_devices
RECURSIVE log_loop(_, _)
log_loop(inventory, nres) ==
    IF inventory = <<>> THEN <<>>
    ELSE (IF test_device(Head(inventory), nres) THEN <<Head(inventory)>> ELSE <<>>)
             \o log_loop(Tail(inventory), nres)

\* line 535-541: the devices the loop appends to no_log_devices
RECURSIVE no_log_loop(_, _)
no_log_loop(inventory, nres) ==
    IF inventory = <<>> THEN <<>>
    ELSE (IF test_device(Head(inventory), nres) THEN <<>> ELSE <<Head(inventory)>>)
             \o no_log_loop(Tail(inventory), nres)

(***************************************************************************)
(* Inputs of the module-level script.                                      *)
(***************************************************************************)
MaxInventory == 2   \* lines of the inventory text
MaxRows == 2        \* rows create_logger_search returns

Quoted(f) == <<"\"">> \o f \o <<"\"">>
Line4(a, b, c, d) == format4(Quoted(a), Quoted(b), Quoted(c), Quoted(d))
Line5(a, b, c, d, e) == format5(Quoted(a), Quoted(b), Quoted(c), Quoted(d), Quoted(e))

\* inventory lines, as the devices literal of line 483-510 writes them
InventoryLines ==
    { Line5(<<"a">>, <<"p">>, <<"h">>, <<>>, <<"7">>),
      Line4(<<"A">>, <<"P">>, <<"h">>, <<>>),                     \* no reference count
      Line5(<<"b", " ">>, <<"p">>, <<"h">>, <<"1">>, <<"3">>),    \* blank inside a field
      Line5(<<"b">>, <<"p">>, <<"h">>, <<"1", " ">>, <<"3">>),    \* blank ending field four
      <<" ">> \o Line5(<<"B">>, <<"p">>, <<"h">>, <<"1">>, <<"3">>) \o <<" ">>,
      <<" ">>,                                                   \* blank line
      <<"\"", "a", "\"", ",", "\"", "p", "\"">> }                \* two fields only

\* result rows (vendor, product, hostName, address, count)
ResultRows ==
    { << <<"a">>, <<"p">>, <<"h">>, <<>>, <<"1">> >>,
      << <<" ", "A", " ">>, <<"P">>, <<"h">>, <<>>, <<" ", "2">> >>,
      << <<"a", ",", "p">>, <<"h">>, <<>>, <<"2">>, <<"5">> >>,      \* ',' inside a field
      << <<"b">>, <<"p">>, <<"h">>, <<"1">>, <<"1", "0">> >> }

SeqsUpTo(S, n) == UNION {[1..k -> S] : k \in 0..n}

\* the text of n lines, each ended by a newline
RECURSIVE JoinLines(_)
JoinLines(lines) ==
    IF lines = <<>> THEN <<>> ELSE Head(lines) \o <<"\n">> \o JoinLines(Tail(lines))

(***************************************************************************)
(* The module-level script, line 518-554.                                  *)
(***************************************************************************)
ScriptStart ==
    /\ mpc = "normalize_devices"
    /\ raw_results = <<>>
    /\ normalized_devices_from_list_with_count = <<>>
    /\ normalized_devices_from_list_without_count = <<>>
    /\ results = <<>>
    /\ total_log_count = 0
    /\ normalized_results = <<>>
    /\ normalized_results_with_count = <<>>
    /\ log_devices = <<>>
    /\ no_log_devices = <<>>
    /\ normalized_devices_with_count = <<>>
    /\ no_log_devices_with_count = <<>>

ScriptInit ==
    /\ LifecycleStart
    /\ applianceDefault = lenght
    /\ ScriptStart
    /\ \E lines \in SeqsUpTo(InventoryLines, MaxInventory) : devices = JoinLines(lines)

\* line 518-519
NormalizeDevices ==
    /\ mpc = "normalize_devices"
    /\ normalized_devices_from_list_with_count' = normalize_devices(split(devices, "\n"))
    /\ mpc' = "remove_count"
    /\ UNCHANGED <<devices, raw_results, normalized_devices_from_list_without_count,
                   results, total_log_count, normalized_results,
                   normalized_results_with_count, log_devices, no_log_devices,
                   normalized_devices_with_count, no_log_devices_with_count>>
    /\ UNCHANGED lvars

\* line 520; an inventory line with fewer than four fields raises IndexError
RemoveCount ==
    /\ mpc = "remove_count"
    /\ IF \A i \in 1..Len(normalized_devices_from_list_with_count) :
              HasFourFields(normalized_devices_from_list_with_count[i])
       THEN /\ normalized_devices_from_list_without_count' =
                   remove_count_from_devices(normalized_devices_from_list_with_count)
            /\ mpc' = "create_logger_search"
       ELSE /\ UNCHANGED normalized_devices_from_list_without_count
            /\ mpc' = "crashed"
    /\ UNCHANGED <<devices, raw_results, normalized_devices_from_list_with_count,
                   results, total_log_count, normalized_results,
                   normalized_results_with_count, log_devices, no_log_devices,
                   normalized_devices_with_count, no_log_devices_with_count>>
    /\ UNCHANGED lvars

\* line 523-524: the call of create_logger_search, taken as a whole, returns
\* a list of rows
CreateLoggerSearchReturns ==
    /\ mpc = "create_logger_search"
    /\ pc = "login"
    /\ \E rows \in SeqsUpTo(ResultRows, MaxRows) :
        /\ combined_result_list' = rows
        /\ raw_results' = rows
        /\ results' = rows
    /\ pc' = "returned"
    /\ mpc' = "calculate_total"
    /\ UNCHANGED <<devices, normalized_devices_from_list_with_count,
                   normalized_devices_from_list_without_count, total_log_count,
                   normalized_results, normalized_results_with_count, log_devices,
                   no_log_devices, normalized_devices_with_count,
                   no_log_devices_with_count>>
    /\ UNCHANGED <<trace, login_token, search_id, status_response, hit_count,
                   offset, polls, applianceDefault>>

\* line 526; a count that is not a decimal string raises ValueError
CalculateTotal ==
    /\ mpc = "calculate_total"
    /\ IF \A i \in 1..Len(results) : IsDecimal(results[i][5])
       THEN /\ total_log_count' = calculate_total_event_count(results)
            /\ mpc' = "normalize_result"
       ELSE /\ UNCHANGED total_log_count
            /\ mpc' = "crashed"
    /\ UNCHANGED <<devices, raw_results, normalized_devices_from_list_with_count,
                   normalized_devices_from_list_without_count, results,
                   normalized_results, normalized_results_with_count, log_devices,
                   no_log_devices, normalized_devices_with_count,
                   no_log_devices_with_count>>
    /\ UNCHANGED lvars

\* line 529-531
NormalizeResult ==
    /\ mpc = "normalize_result"
    /\ LET dict_nm_results == normalize_result(results)
       IN  /\ normalized_results' = dict_nm_results.normalized_results
           /\ normalized_results_with_count' = dict_nm_results.normalized_results_with_count
    /\ mpc' = "partition"
    /\ UNCHANGED <<devices, raw_results, normalized_devices_from_list_with_count,
                   normalized_devices_from_list_without_count, results, total_log_count,
                   log_devices, no_log_devices, normalized_devices_with_count,
                   no_log_devices_with_count>>
    /\ UNCHANGED lvars

\* line 535-541
Partition ==
    /\ mpc = "partition"
    /\ log_devices' = log_loop(normalized_devices_from_list_without_count, normalized_results)
    /\ no_log_devices' = no_log_loop(normalized_devices_from_list_without_count, normalized_results)
    /\ mpc' = "attach_counts"
    /\ UNCHANGED <<devices, raw_results, normalized_devices_from_list_with_count,
                   normalized_devices_from_list_without_count, results, total_log_count,
                   normalized_results, normalized_results_with_count,
                   normalized_devices_with_count, no_log_devices_with_count>>
    /\ UNCHANGED lvars

\* line 544-547
AttachCounts ==
    /\ mpc = "attach_counts"
    /\ normalized_devices_with_count' =
           [i \in 1..Len(log_devices) |->
               log_devices[i] \o <<",">>
                   \o get_device_event_count(log_devices[i], normalized_results_with_count)]
    /\ mpc' = "attach_zero"
    /\ UNCHANGED <<devices, raw_results, normalized_devices_from_list_with_count,
                   normalized_devices_from_list_without_count, results, total_log_count,
                   normalized_results, normalized_results_with_count, log_devices,
                   no_log_devices, no_log_devices_with_count>>
    /\ UNCHANGED lvars

\* line 550-554
AttachZero ==
    /\ mpc = "attach_zero"
    /\ no_log_devices_with_count' =
           [i \in 1..Len(no_log_devices) |-> no_log_devices[i] \o <<",", "0">>]
    /\ mpc' = "done"
    /\ UNCHANGED <<devices, raw_results, normalized_devices_from_list_with_count,
                   normalized_devices_from_list_without_count, results, total_log_count,
                   normalized_results, normalized_results_with_count, log_devices,
                   no_log_devices, normalized_devices_with_count>>
    /\ UNCHANGED lvars

ScriptNext ==
    \/ NormalizeDevices \/ RemoveCount \/ CreateLoggerSearchReturns \/ CalculateTotal
    \/ NormalizeResult \/ Partition \/ AttachCounts \/ AttachZero

ScriptSpec == ScriptInit /\ [][ScriptNext]_vars

(***************************************************************************)
(* The earlier version, arc_logger_monitor.old.py: the inventory is a list *)
(* of device records read from config.yaml, keys are joined with '|', and  *)
(* only reporting devices are given a count.  The variables keep the roles *)
(* they have above: normalized_devices_from_list_without_count is          *)
(* nm_devices, normalized_results is nm_results,                           *)
(* normalized_results_with_count is nm_result_with_count and               *)
(* normalized_devices_with_count is normalize_devices_with_count.          *)
(***************************************************************************)
old_join4(a, b, c, d) == a \o <<"|">> \o b \o <<"|">> \o c \o <<"|">> \o d

\* old line 401-410
old_normalize_result(rows) ==
    [i \in 1..Len(rows) |->
        old_join4(strip(lower(rows[i][1])), strip(lower(rows[i][2])),
                  strip(lower(rows[i][3])), strip(lower(rows[i][4])))]

\* old line 413-423
old_normalize_result_with_count(rows) ==
    [i \in 1..Len(rows) |->
        old_join4(strip(lower(rows[i][1])), strip(lower(rows[i][2])),
                  strip(lower(rows[i][3])), strip(lower(rows[i][4])))
            \o <<"|">> \o strip(lower(rows[i][5]))]

\* old line 426-435
old_normalize_device(devs) ==
    [i \in 1..Len(devs) |->
        old_join4(strip(lower(devs[i].deviceVendor)), strip(lower(devs[i].deviceProduct)),
                  strip(lower(devs[i].deviceHostName)), strip(lower(devs[i].deviceAddress)))]

\* old line 376-387
old_test_device(nm_device, nm_results) ==
    \E i \in 1..Len(nm_results) : nm_device = nm_results[i]

\* old line 390-398: both branches of the if return, so the loop body runs
\* for the first row only; an empty list falls off the loop and returns None.
\* The value is given as str() makes it at old line 485.
old_get_device_event_count(normalized_device, with_count) ==
    IF with_count = <<>> THEN <<"N", "o", "n", "e">>
    ELSE LET dummy == split(Head(with_count), "|")
             count == dummy[5]
             result == old_join4(dummy[1], dummy[2], dummy[3], dummy[4])
         IN  IF result = normalized_device THEN count ELSE <<"0">>

\* device records of config.yaml
DeviceRecord(v, p, h, a) ==
    [deviceVendor |-> v, deviceProduct |-> p, deviceHostName |-> h, deviceAddress |-> a]

OldInventory ==
    { DeviceRecord(<<"a">>, <<"p">>, <<"h">>, <<>>),
      DeviceRecord(<<"A", " ">>, <<"P">>, <<"h">>, <<>>),
      DeviceRecord(<<"b">>, <<"p">>, <<"h">>, <<"1">>),
      DeviceRecord(<<"d">>, <<"p">>, <<"h">>, <<>>) }

\* old line 455-459
OldScriptInit ==
    /\ LifecycleStart
    /\ applianceDefault = lenght
    /\ mpc = "old_create_logger_search"
    /\ devices \in SeqsUpTo(OldInventory, MaxInventory)
    /\ raw_results = <<>>
    /\ normalized_devices_from_list_with_count = <<>>
    /\ normalized_devices_from_list_without_count = <<>>
    /\ results = <<>>
    /\ total_log_count = 0
    /\ normalized_results = <<>>
    /\ normalized_results_with_count = <<>>
    /\ log_devices = <<>>
    /\ no_log_devices = <<>>
    /\ normalized_devices_with_count = <<>>
    /\ no_log_devices_with_count = <<>>

\* old line 460: the call of create_logger_search, taken as a whole, returns
\* a list of rows
OldCreateLoggerSearchReturns ==
    /\ mpc = "old_create_logger_search"
    /\ pc = "login"
    /\ \E rows \in SeqsUpTo(ResultRows, MaxRows) :
        /\ combined_result_list' = rows
        /\ raw_results' = rows
        /\ results' = rows
    /\ pc' = "returned"
    /\ mpc' = "old_calculate_total"
    /\ UNCHANGED <<devices, normalized_devices_from_list_with_count,
                   normalized_devices_from_list_without_count, total_log_count,
                   normalized_results, normalized_results_with_count, log_devices,
                   no_log_devices, normalized_devices_with_count,
                   no_log_devices_with_count>>
    /\ UNCHANGED <<trace, login_token, search_id, status_response, hit_count,
                   offset, polls, applianceDefault>>

\* old line 464; a count that is not a decimal string raises ValueError
OldCalculateTotal ==
    /\ mpc = "old_calculate_total"
    /\ IF \A i \in 1..Len(results) : IsDecimal(results[i][5])
       THEN /\ total_log_count' = calculate_total_event_count(results)
            /\ mpc' = "old_normalize"
       ELSE /\ UNCHANGED total_log_count
            /\ mpc' = "crashed"
    /\ UNCHANGED <<devices, raw_results, normalized_devices_from_list_with_count,
                   normalized_devices_from_list_without_count, results,
                   normalized_results, normalized_results_with_count, log_devices,
                   no_log_devices, normalized_devices_with_count,
                   no_log_devices_with_count>>
    /\ UNCHANGED lvars

\* old line 467-469
OldNormalize ==
    /\ mpc = "old_normalize"
    /\ normalized_results' = old_normalize_result(results)
    /\ normalized_devices_from_list_without_count' = old_normalize_device(devices)
    /\ normalized_results_with_count' = old_normalize_result_with_count(results)
    /\ mpc' = "old_partition"
    /\ UNCHANGED <<devices, raw_results, normalized_devices_from_list_with_count,
                   results, total_log_count, log_devices, no_log_devices,
                   normalized_devices_with_count, no_log_devices_with_count>>
    /\ UNCHANGED lvars

\* old line 473-479
OldPartition ==
    /\ mpc = "old_partition"
    /\ log_devices' =
           SelectSeq(normalized_devices_from_list_without_count,
                     LAMBDA device : old_test_device(device, normalized_results))
    /\ no_log_devices' =
           SelectSeq(normalized_devices_from_list_without_count,
                     LAMBDA device : ~old_test_device(device, normalized_results))
    /\ mpc' = "old_attach_counts"
    /\ UNCHANGED <<devices, raw_results, normalized_devices_from_list_with_count,
                   normalized_devices_from_list_without_count, results, total_log_count,
                   normalized_results, normalized_results_with_count,
                   normalized_devices_with_count, no_log_devices_with_count>>
    /\ UNCHANGED lvars

\* old line 482-485
OldAttachCounts ==
    /\ mpc = "old_attach_counts"
    /\ normalized_devices_with_count' =
           [i \in 1..Len(log_devices) |->
               log_devices[i] \o <<"|">>
                   \o old_get_device_event_count(log_devices[i], normalized_results_with_count)]
    /\ mpc' = "old_done"
    /\ UNCHANGED <<devices, raw_results, normalized_devices_from_list_with_count,
                   normalized_devices_from_list_without_count, results, total_log_count,
                   normalized_results, normalized_results_with_count, log_devices,
                   no_log_devices, no_log_devices_with_count>>
    /\ UNCHANGED lvars

OldScriptNext ==
    \/ OldCreateLoggerSearchReturns \/ OldCalculateTotal \/ OldNormalize
    \/ OldPartition \/ OldAttachCounts

OldScriptSpec == OldScriptInit /\ [][OldScriptNext]_vars


(***************************************************************************)
(* Reading the trace.                                                      *)
(***************************************************************************)
StatusUrl == "/server/search/status"
ChartUrl == "/server/search/chart_data"
CloseUrl == "/server/search/close"
LogoutUrl == "/core-service/rest/LoginService/logout"
LoginUrl == "/core-service/rest/LoginService/login"
SearchUrl == "/server/search"

IsRequest(e, url) == e.ev = "request" /\ e.url = url
IsResponse(e, url) == e.ev = "response" /\ e.url = url
RequestsTo(url) == {i \in 1..Len(trace) : IsRequest(trace[i], url)}
IsFiveSecondSleep(e) == e.ev = "sleep" /\ e.ms = 5000
FiveSecondSleeps == {i \in 1..Len(trace) : IsFiveSecondSleep(trace[i])}

\* a status response that carries a status value other than the two terminal ones
IsNonTerminalResponse(e) ==
    /\ IsResponse(e, StatusUrl)
    /\ e.ret.tag = "json"
    /\ e.ret.val.status \notin {"complete", "error"}
NonTerminalResponses == {i \in 1..Len(trace) : IsNonTerminalResponse(trace[i])}

IsStatusValue(e, v) ==
    IsResponse(e, StatusUrl) /\ e.ret.tag = "json" /\ e.ret.val.status = v

ProcessEnded == pc \in {"returned", "exited", "crashed"}

(***************************************************************************)
(* C1: every run that started polling a submitted search has issued        *)
(* exactly one close-search request followed by exactly one logout request *)
(* by the time the process ends, whether polling succeeded, reported       *)
(* 'error' or failed.                                                      *)
(***************************************************************************)
C1_CleanupExactlyOnce ==
    (ProcessEnded /\ RequestsTo(StatusUrl) # {}) =>
        /\ Cardinality(RequestsTo(CloseUrl)) = 1
        /\ Cardinality(RequestsTo(LogoutUrl)) = 1
        /\ \A i \in RequestsTo(CloseUrl), j \in RequestsTo(LogoutUrl) : i < j

(***************************************************************************)
(* C2: in the poll loop a five-second sleep follows each non-terminal      *)
(* status response and nothing else; the loop is left towards pagination   *)
(* only with a 'complete' response, after as many sleeps as non-terminal   *)
(* responses; after an 'error' response there is no further sleep and no   *)
(* further status request.                                                 *)
(***************************************************************************)
C2_PollSleeps ==
    /\ \A i \in 1..Len(trace) :
        /\ IsNonTerminalResponse(trace[i]) =>
               i < Len(trace) /\ IsFiveSecondSleep(trace[i + 1])
        /\ IsFiveSecondSleep(trace[i]) =>
               i > 1 /\ IsNonTerminalResponse(trace[i - 1])
        /\ IsStatusValue(trace[i], "error") =>
               /\ pc = "exited"
               /\ i = Len(trace)
    /\ pc \in {"page", "close", "logout", "returned"} =>
        /\ Subscriptable(status_response, "status")
        /\ status_response.val.status = "complete"
        /\ Cardinality(FiveSecondSleeps) = Cardinality(NonTerminalResponses)
        /\ \E i \in 1..Len(trace) :
            /\ IsStatusValue(trace[i], "complete")
            /\ trace[i].ret = status_response
            /\ \A j \in (i + 1)..Len(trace) :
                ~IsFiveSecondSleep(trace[j]) /\ ~IsRequest(trace[j], StatusUrl)

\* [running, running, complete]: the loop was left after exactly two sleeps
C2_Witness ==
    /\ pc \in {"page", "close"}
    /\ Cardinality(NonTerminalResponses) = 2
    /\ Cardinality(FiveSecondSleeps) = 2
    /\ IsStatusValue(trace[Len(trace)], "complete")

(***************************************************************************)
(* C3: the list create_logger_search returns is the appliance's full       *)
(* ordered result set: every row once, in the appliance's order.           *)
(***************************************************************************)
C3_PaginationRoundTrip ==
    pc = "returned" => combined_result_list = ApplianceRows(hit_count)

(***************************************************************************)
(* C4: every chart_data request carries the pagination parameters 'offset' *)
(* and 'length', with length equal to the page size 25.                    *)
(***************************************************************************)
C4_PageRequestParameters ==
    \A i \in RequestsTo(ChartUrl) :
        /\ {"search_session_id", "user_session_id", "offset", "length"}
               \subseteq DOMAIN trace[i].payload
        /\ trace[i].payload["length"] = 25

(***************************************************************************)
(* Reading the script's lists.                                             *)
(***************************************************************************)
Partitioned == mpc \in {"attach_counts", "attach_zero", "done"}
InventoryKeys == Range(normalized_devices_from_list_without_count)

(***************************************************************************)
(* C5: after reconciliation every inventory key is in exactly one of       *)
(* log_devices and no_log_devices, and the two lists together have one     *)
(* entry per inventory entry.                                              *)
(***************************************************************************)
C5_PartitionExhaustiveDisjoint ==
    Partitioned =>
        /\ \A k \in InventoryKeys : (k \in Range(log_devices)) # (k \in Range(no_log_devices))
        /\ Range(log_devices) \cup Range(no_log_devices) = InventoryKeys
        /\ Len(log_devices) + Len(no_log_devices)
               = Len(normalized_devices_from_list_without_count)

\* an inventory with a repeated entry that reports
C5_Witness ==
    /\ mpc = "done"
    /\ \E i, j \in 1..Len(normalized_devices_from_list_without_count) :
        /\ i # j
        /\ normalized_devices_from_list_without_count[i]
               = normalized_devices_from_list_without_count[j]
        /\ normalized_devices_from_list_without_count[i] \in Range(log_devices)

(***************************************************************************)
(* C6: an inventory key is reporting exactly when it equals the normalized *)
(* key of some fetched row; every other inventory key is silent and is     *)
(* emitted with count 0.                                                   *)
(***************************************************************************)
C6_ReportingIffMatched ==
    /\ Partitioned =>
        \A k \in InventoryKeys :
            /\ k \in Range(log_devices)
                   <=> \E j \in 1..Len(results) : normalized_results[j] = k
            /\ k \in Range(no_log_devices)
                   <=> \A j \in 1..Len(results) : normalized_results[j] # k
    /\ mpc = "done" =>
        /\ Len(no_log_devices_with_count) = Len(no_log_devices)
        /\ \A i \in 1..Len(no_log_devices) :
            /\ split(no_log_devices_with_count[i], ",")[5] = <<"0">>
            /\ SubSeq(no_log_devices_with_count[i], 1, Len(no_log_devices[i]))
                   = no_log_devices[i]

\* one device reports through a row that is not the first one, another is silent
C6_Witness ==
    /\ mpc = "done"
    /\ no_log_devices # <<>>
    /\ \E k \in Range(log_devices) : Len(results) = 2 /\ normalized_results[1] # k

(***************************************************************************)
(* C7: the count emitted with a reporting key is the count of the first    *)
(* fetched row whose normalized key equals that key.                       *)
(***************************************************************************)
FirstRowWithKey(k) == SetMin({j \in 1..Len(results) : normalized_results[j] = k})

C7_CountOfFirstMatchingRow ==
    mpc \in {"attach_zero", "done"} =>
        /\ Len(normalized_devices_with_count) = Len(log_devices)
        /\ \A i \in 1..Len(log_devices) :
            normalized_devices_with_count[i]
                = log_devices[i] \o <<",">>
                      \o strip(lower(results[FirstRowWithKey(log_devices[i])][5]))

(***************************************************************************)
(* C8: total_log_count is the sum of the fifth field over all fetched      *)
(* rows, whatever the inventory is.                                        *)
(***************************************************************************)
RECURSIVE SumOfCounts(_)
SumOfCounts(indices) ==
    IF indices = {} THEN 0
    ELSE LET i == CHOOSE x \in indices : TRUE
         IN  int(results[i][5]) + SumOfCounts(indices \ {i})

C8_TotalIsSumOfAllRows ==
    mpc \in {"normalize_result", "partition", "attach_counts", "attach_zero", "done"} =>
        total_log_count = SumOfCounts(1..Len(results))

\* two rows of one device, and a row of a device the inventory does not list
C8_Witness ==
    /\ mpc = "done"
    /\ \E i, j \in 1..Len(results) : i # j /\ normalized_results[i] = normalized_results[j]
    /\ \E j \in 1..Len(results) : normalized_results[j] \notin InventoryKeys
    /\ no_log_devices # <<>>
    /\ total_log_count > 0

(***************************************************************************)
(* C9: two rows whose identity fields differ only in letter case and in    *)
(* leading or trailing whitespace of a field have the same normalized key. *)
(***************************************************************************)
SameLetter(c, d) ==
    \/ c = d
    \/ c \in DOMAIN UpperToLower /\ UpperToLower[c] = d
    \/ d \in DOMAIN UpperToLower /\ UpperToLower[d] = c

\* f and g are a common core, up to letter case, between paddings of whitespace
DiffersOnlyInCaseAndPadding(f, g) ==
    \E a1, b1 \in 0..Len(f), a2, b2 \in 0..Len(g) :
        /\ a1 + b1 <= Len(f)
        /\ a2 + b2 <= Len(g)
        /\ Len(f) - a1 - b1 = Len(g) - a2 - b2
        /\ \A i \in 1..a1 : f[i] \in WhitespaceChars
        /\ \A i \in (Len(f) - b1 + 1)..Len(f) : f[i] \in WhitespaceChars
        /\ \A i \in 1..a2 : g[i] \in WhitespaceChars
        /\ \A i \in (Len(g) - b2 + 1)..Len(g) : g[i] \in WhitespaceChars
        /\ \A k \in 1..(Len(f) - a1 - b1) : SameLetter(f[a1 + k], g[a2 + k])

SameDeviceUpToCaseAndPadding(r1, r2) ==
    \A f \in 1..4 : DiffersOnlyInCaseAndPadding(r1[f], r2[f])

C9_CaseWhitespaceInsensitive ==
    mpc \in {"partition", "attach_counts", "attach_zero", "done"} =>
        \A i, j \in 1..Len(results) :
            SameDeviceUpToCaseAndPadding(results[i], results[j])
                => normalized_results[i] = normalized_results[j]

\* ' A ' and 'a': rows that are written differently get one key
C9_Witness ==
    /\ mpc = "partition"
    /\ \E i, j \in 1..Len(results) :
        /\ results[i][1] # results[j][1]
        /\ results[i][2] # results[j][2]
        /\ SameDeviceUpToCaseAndPadding(results[i], results[j])
        /\ normalized_results[i] = normalized_results[j]

(***************************************************************************)
(* C10: an inventory record and a result row whose four identity fields    *)
(* are equal after stripping surrounding quotes, lower-casing and trimming *)
(* each field have equal keys, and the device is classified as reporting.  *)
(***************************************************************************)
StripSurroundingQuotes(f) ==
    IF Len(f) >= 2 /\ f[1] = "\"" /\ f[Len(f)] = "\"" THEN SubSeq(f, 2, Len(f) - 1) ELSE f

CanonicalField(f) == strip(lower(StripSurroundingQuotes(strip(f))))

InventoryRecords ==
    {l \in Range(split(devices, "\n")) : strip(l) # <<>> /\ HasFourFields(l)}

InventoryKeyOf(line) == remove_count_from_devices(normalize_devices(<<line>>))[1]

C10_InventoryKeyEqualsResultKey ==
    mpc = "done" =>
        \A line \in InventoryRecords, j \in 1..Len(results) :
            (\A f \in 1..4 : CanonicalField(split(line, ",")[f]) = CanonicalField(results[j][f]))
                => /\ InventoryKeyOf(line) = normalized_results[j]
                   /\ InventoryKeyOf(line) \in Range(log_devices)

(***************************************************************************)
(* C11: normalization is idempotent: normalize_devices applied to the      *)
(* lines it produced gives the same lines, and normalize_result applied to *)
(* rows made of the already normalized fields gives the same keys.         *)
(***************************************************************************)
NormalizedRows ==
    [i \in 1..Len(results) |-> [f \in 1..5 |-> NormalizeField(results[i][f])]]

C11_NormalizationIdempotent ==
    /\ mpc # "normalize_devices" =>
        normalize_devices(normalized_devices_from_list_with_count)
            = normalized_devices_from_list_with_count
    /\ mpc \in {"partition", "attach_counts", "attach_zero", "done"} =>
        /\ normalize_result(NormalizedRows).normalized_results = normalized_results
        /\ normalize_result(NormalizedRows).normalized_results_with_count
               = normalized_results_with_count

\* lines that lost quotes, capitals and outer blanks, and a row that lost
\* capitals and blanks, have been normalized
C11_Witness ==
    /\ mpc = "done"
    /\ normalized_devices_from_list_with_count # <<>>
    /\ \E l \in Range(split(devices, "\n")) :
        l # <<>> /\ l[1] = " " /\ strip(l) # <<>>
    /\ \E i \in 1..Len(results) : NormalizedRows[i] # results[i]

(***************************************************************************)
(* C12: when the login response holds no well-formed login envelope (the   *)
(* HTTP error included) the run ends at once with a failure: login is      *)
(* requested once only and no other request is sent.                       *)
(***************************************************************************)
WellFormedEnvelope(ret) ==
    /\ Subscriptable(ret, "log.loginResponse")
    /\ "log.return" \in DOMAIN ret.val["log.loginResponse"]

AllRequests == {i \in 1..Len(trace) : trace[i].ev = "request"}

C12_LoginFailureAborts ==
    /\ Cardinality(RequestsTo(LoginUrl)) <= 1
    /\ \A i \in 1..Len(trace) :
        (IsResponse(trace[i], LoginUrl) /\ ~WellFormedEnvelope(trace[i].ret)) =>
            /\ pc \in {"exited", "crashed"}
            /\ login_token = NoToken
            /\ AllRequests = RequestsTo(LoginUrl)
            /\ i = Len(trace)

\* the login request got an HTTP error and the process has exited
C12_Witness ==
    /\ pc = "exited"
    /\ Len(trace) = 2
    /\ IsResponse(trace[2], LoginUrl)
    /\ trace[2].ret.tag = "HTTPError"

(***************************************************************************)
(* C13: when a status response reports 'error' the run ends with a failure *)
(* exit: no chart_data page is requested, no result list is returned and   *)
(* the script produces no reconciliation output.                           *)
(***************************************************************************)
ScriptUntouched ==
    /\ mpc = "idle"
    /\ raw_results = <<>>
    /\ results = <<>>
    /\ log_devices = <<>>
    /\ no_log_devices = <<>>
    /\ normalized_devices_with_count = <<>>
    /\ no_log_devices_with_count = <<>>

C13_ErrorStatusAborts ==
    \A i \in 1..Len(trace) :
        IsStatusValue(trace[i], "error") =>
            /\ pc = "exited"
            /\ RequestsTo(ChartUrl) = {}
            /\ RequestsTo(CloseUrl) = {}
            /\ combined_result_list = <<>>
            /\ ScriptUntouched

\* [running, error]: the process has exited in the second iteration
C13_Witness ==
    /\ pc = "exited"
    /\ IsStatusValue(trace[Len(trace)], "error")
    /\ NonTerminalResponses # {}

(***************************************************************************)
(* C14: after a successful login the session is released on every exit     *)
(* path: when the process has ended, a logout request has been sent, and a *)
(* close-search request too if the search was submitted.                   *)
(***************************************************************************)
C14_SessionReleasedOnEveryExit ==
    (ProcessEnded /\ login_token # NoToken) =>
        /\ RequestsTo(LogoutUrl) # {}
        /\ RequestsTo(SearchUrl) # {} => RequestsTo(CloseUrl) # {}

(***************************************************************************)
(* C15: a close-search or logout request that fails with an HTTP error     *)
(* after the pages were fetched does not end the run: after a failed close *)
(* the logout is still requested, and the function returns the complete    *)
(* list of the rows fetched.                                               *)
(***************************************************************************)
IsFailure(e, url) == IsResponse(e, url) /\ e.ret.tag = "HTTPError"

RECURSIVE RowsIn(_)
RowsIn(events) ==
    IF events = <<>> THEN <<>>
    ELSE LET e == events[Len(events)]
         IN  RowsIn(SubSeq(events, 1, Len(events) - 1))
                 \o (IF IsResponse(e, ChartUrl) /\ e.ret.tag = "json"
                     THEN e.ret.val.results ELSE <<>>)

C16_StatusFailureFatal ==
    \A i \in 1..Len(trace) :
        IsFailure(trace[i], StatusUrl) =>
            /\ i = Len(trace)
            /\ pc = "crashed"
            /\ RequestsTo(ChartUrl) = {}
            /\ combined_result_list = <<>>

\* the second status request failed and the process has ended
C16_Witness ==
    /\ pc = "crashed"
    /\ IsFailure(trace[Len(trace)], StatusUrl)
    /\ Cardinality(RequestsTo(StatusUrl)) = 2

(***************************************************************************)
(* C17: post never hands an HTTP error back as if it were a result: a      *)
(* value without a status is parsed JSON, the empty marker belongs to HTTP *)
(* 204, and after a 4xx/5xx response the caller does not go on.            *)
(***************************************************************************)
C17_PostFailsOnHttpError ==
    \A i \in 1..Len(trace) :
        trace[i].ev = "response" =>
            /\ trace[i].ret.tag \in {"json", "text", "HTTPError"}
            /\ trace[i].ret.tag = "text" => trace[i].ret.status_code = 204
            /\ trace[i].ret.tag = "HTTPError" => (ProcessEnded /\ i = Len(trace))

(***************************************************************************)
(* C18: the reference count of an inventory record takes no part in        *)
(* matching: an inventory that differs from the given one only in the      *)
(* fifth field of its records, or in its presence, gives the same          *)
(* reporting list, silent list and emitted counts.                         *)
(***************************************************************************)
IdentityPart(line) ==
    LET tmp == split(line, ",") IN format4(tmp[1], tmp[2], tmp[3], tmp[4])

\* the line as written, without a fifth field, and with another fifth field
LineVariants(line) ==
    IF ~HasFourFields(line) THEN {line}
    ELSE {line, IdentityPart(line), IdentityPart(line) \o <<",">> \o Quoted(<<"9">>)}

InventoryVariants ==
    LET lines == split(devices, "\n")
    IN  {v \in [1..Len(lines) -> UNION {LineVariants(lines[i]) : i \in 1..Len(lines)}] :
            \A i \in 1..Len(lines) : v[i] \in LineVariants(lines[i])}

ScriptOutcome(lines, rows) ==
    LET inventory == remove_count_from_devices(normalize_devices(lines))
        nm == normalize_result(rows)
        reporting == log_loop(inventory, nm.normalized_results)
        silent == no_log_loop(inventory, nm.normalized_results)
    IN  [log_devices |-> reporting,
         no_log_devices |-> silent,
         normalized_devices_with_count |->
             [i \in 1..Len(reporting) |->
                 reporting[i] \o <<",">>
                     \o get_device_event_count(reporting[i], nm.normalized_results_with_count)],
         no_log_devices_with_count |->
             [i \in 1..Len(silent) |-> silent[i] \o <<",", "0">>]]

C18_ReferenceCountIgnored ==
    mpc = "done" =>
        \A v \in InventoryVariants :
            ScriptOutcome(v, results)
                = [log_devices |-> log_devices,
                   no_log_devices |-> no_log_devices,
                   normalized_devices_with_count |-> normalized_devices_with_count,
                   no_log_devices_with_count |-> no_log_devices_with_count]

(***************************************************************************)
(* C19: the requests of a run are sent in the order login, search submit,  *)
(* status (one or more), chart_data (zero or more), close, logout; a       *)
(* chart_data or close request comes only after a 'complete' status        *)
(* response, and the hit count that bounds the offsets is the 'hit' value  *)
(* of that response.                                                       *)
(***************************************************************************)
Rank(e) ==
    CASE e.url = LoginUrl -> 1
      [] e.url = SearchUrl -> 2
      [] e.url = StatusUrl -> 3
      [] e.url = ChartUrl -> 4
      [] e.url = CloseUrl -> 5
      [] e.url = LogoutUrl -> 6

CompleteResponses == {j \in 1..Len(trace) : IsStatusValue(trace[j], "complete")}

C19_RequestOrder ==
    /\ \A i, j \in AllRequests : i < j => Rank(trace[i]) <= Rank(trace[j])
    /\ \A u \in {LoginUrl, SearchUrl, CloseUrl, LogoutUrl} : Cardinality(RequestsTo(u)) <= 1
    /\ RequestsTo(SearchUrl) # {} => RequestsTo(LoginUrl) # {}
    /\ RequestsTo(StatusUrl) # {} => RequestsTo(SearchUrl) # {}
    /\ RequestsTo(CloseUrl) # {} => RequestsTo(StatusUrl) # {}
    /\ RequestsTo(LogoutUrl) # {} => RequestsTo(CloseUrl) # {}
    /\ Cardinality(CompleteResponses) <= 1
    /\ \A i \in RequestsTo(ChartUrl) \cup RequestsTo(CloseUrl) :
        \E j \in CompleteResponses :
            /\ j < i
            /\ hit_count = trace[j].ret.val.hit
            /\ IsRequest(trace[i], ChartUrl) => trace[i].payload.offset < trace[j].ret.val.hit
    /\ RequestsTo(CloseUrl) # {} => offset >= hit_count

\* a whole run: two status requests, two pages, close, logout
C19_Witness ==
    /\ pc = "returned"
    /\ Cardinality(RequestsTo(StatusUrl)) = 2
    /\ Cardinality(RequestsTo(ChartUrl)) = 2

(***************************************************************************)
(* C20: on the success path close-search is requested exactly once and     *)
(* logout exactly once, close before logout and both after the last page   *)
(* request; no request follows the logout request.                         *)
(***************************************************************************)
C20_CloseThenLogoutOnce ==
    /\ pc = "returned" =>
        /\ Cardinality(RequestsTo(CloseUrl)) = 1
        /\ Cardinality(RequestsTo(LogoutUrl)) = 1
        /\ \A c \in RequestsTo(CloseUrl) :
            /\ \A l \in RequestsTo(LogoutUrl) : c < l
            /\ \A p \in RequestsTo(ChartUrl) : p < c
    /\ \A l \in RequestsTo(LogoutUrl) :
        /\ trace[l].payload["log.logout"].authToken = login_token
        /\ \A r \in AllRequests : r <= l

\* the function has returned after three pages
C20_Witness ==
    /\ pc = "returned"
    /\ Cardinality(RequestsTo(ChartUrl)) = 3

(***************************************************************************)
(* C21: the k-th chart_data request of a run carries offset 25 * (k - 1),  *)
(* so the offsets are 0, 25, 50, ... in strictly increasing order; every   *)
(* requested offset is below the hit count the 'complete' status response  *)
(* reported; once the pagination loop is over the number of page requests  *)
(* is ceil(hit_count / 25); for a hit count of 0 no page is requested and  *)
(* the result list is empty.                                               *)
(***************************************************************************)
PageRequests == SelectSeq(trace, LAMBDA e : IsRequest(e, ChartUrl))

PaginationOver == pc \in {"close", "logout", "returned"}

CeilDiv(n, d) == (n + d - 1) \div d

C21_PageOffsets ==
    /\ \A k \in 1..Len(PageRequests) :
        /\ PageRequests[k].payload.offset = lenght * (k - 1)
        /\ PageRequests[k].payload.offset < hit_count
        /\ \E j \in CompleteResponses : trace[j].ret.val.hit = hit_count
    /\ PaginationOver =>
        /\ hit_count >= 0
        /\ Len(PageRequests) = CeilDiv(hit_count, lenght)
        /\ hit_count = 0 => PageRequests = <<>> /\ combined_result_list = <<>>

\* the loop has ended on a hit count that is a whole number of pages
C21_Witness ==
    /\ PaginationOver
    /\ hit_count = 2 * lenght
    /\ Len(PageRequests) = 2
    /\ PageRequests[2].payload.offset = lenght

\* the loop has ended without a page request, on a hit count of 0
C21_WitnessNoHits ==
    /\ PaginationOver
    /\ hit_count = 0
    /\ \E j \in CompleteResponses : trace[j].ret.val.hit = 0

(***************************************************************************)
(* C22: once the search is submitted, the run ends if and only if some     *)
(* status request returns 'complete' or 'error' or fails.                  *)
(*   - a run that has ended after the submission has seen such a response, *)
(*     and until one is seen the function is in the poll loop;             *)
(*   - after such a response the run ends: the poll loop is left and the   *)
(*     pagination loop ends after at most ceil(hit_count / 25) pages;      *)
(*   - a run whose status responses are all non-terminal goes on issuing   *)
(*     status requests forever: no number of attempts ends the loop.       *)
(***************************************************************************)
SubmittedOk == \E i \in 1..Len(trace) : trace[i] = Sleep(150)

TerminalSeen ==
    /\ status_response # NoResponse
    /\ \/ ~Subscriptable(status_response, "status")
       \/ status_response.val.status \in {"complete", "error"}

C22_TerminatesIffTerminalStatus ==
    /\ [](SubmittedOk /\ ~TerminalSeen => pc = "poll")
    /\ [](SubmittedOk /\ ProcessEnded => TerminalSeen)
    /\ [](offset <= hit_count + lenght - 1)
    /\ (TerminalSeen ~> ProcessEnded)
    /\ (<>SubmittedOk => (<>TerminalSeen \/ []<><<Poll \/ PollUnrecorded>>_vars))

\* the run has returned, with two pages or more, after more poll iterations
\* than the trace records
C22_Witness ==
    /\ pc = "returned"
    /\ polls = MaxPolls + 1
    /\ hit_count > lenght

\* the run is still in the poll loop after more iterations than the trace
\* records, every response so far having been non-terminal
C22_WitnessStillPolling ==
    /\ pc = "poll"
    /\ polls = MaxPolls + 1
    /\ ~TerminalSeen

(***************************************************************************)
(* C23: wait checks the status every 5 seconds: between any two            *)
(* consecutive status requests it issues there is a 5-second sleep, and    *)
(* the value it returns is the first status response whose status is       *)
(* 'complete'.                                                             *)
(***************************************************************************)
StatusResponsesSeen == {i \in 1..Len(trace) : IsResponse(trace[i], StatusUrl)}

C23_WaitChecksEveryFiveSeconds ==
    /\ \A i, j \in RequestsTo(StatusUrl) :
        i < j => \E k \in FiveSecondSleeps : i < k /\ k < j
    /\ pc = "wait_returned" =>
        /\ IsStatusValue(trace[Len(trace)], "complete")
        /\ status_response = trace[Len(trace)].ret
        /\ \A i \in StatusResponsesSeen :
            IsStatusValue(trace[i], "complete") => i = Len(trace)

(***************************************************************************)
(* C24: wait returns when the search is finalized: at the first status     *)
(* response that is terminal, 'complete' or 'error', it stops polling and  *)
(* returns that response.                                                  *)
(***************************************************************************)
C24_WaitReturnsAtTerminalStatus ==
    \A i \in StatusResponsesSeen :
        (IsStatusValue(trace[i], "complete") \/ IsStatusValue(trace[i], "error")) =>
            /\ pc = "wait_returned"
            /\ status_response = trace[i].ret
            /\ \A j \in RequestsTo(StatusUrl) : j < i

(***************************************************************************)
(* C25, as claimed: the search_id is unique per run: two runs against the  *)
(* same appliance, overlapping or not, submit under different search_id    *)
(* values, so no status, chart_data or close request of one run addresses  *)
(* the search of the other.                                                *)
(***************************************************************************)
Submitted(r) == \E i \in 1..Len(trace[r]) : IsRequest(trace[r][i], SearchUrl)

SearchRequestsOf(r) ==
    {i \in 1..Len(trace[r]) :
        \E u \in {SearchUrl, StatusUrl, ChartUrl, CloseUrl} : IsRequest(trace[r][i], u)}

ReadingOf(r) ==
    (CHOOSE e \in Range(trace[r]) : e.ev = "clock").t

Abs(x) == IF x < 0 THEN -x ELSE x

LoggedIn == \E i \in 1..Len(trace) : IsResponse(trace[i], LoginUrl) /\ LoginOutcome(trace[i].ret) = "ok"

ReturnedToken ==
    (CHOOSE e \in Range(trace) : IsResponse(e, LoginUrl)).ret.val["log.loginResponse"]["log.return"]

SubmittedId ==
    (CHOOSE e \in Range(trace) : IsRequest(e, SearchUrl)).payload.search_session_id

C26_TokenAndSearchIdFixed ==
    /\ LoggedIn => login_token = ReturnedToken
    /\ RequestsTo(SearchUrl) # {} => search_id = SubmittedId
    /\ \A i \in AllRequests :
        /\ trace[i].url # LoginUrl => LoggedIn
        /\ trace[i].url \in {SearchUrl, StatusUrl, ChartUrl, CloseUrl} =>
            /\ trace[i].payload.user_session_id = ReturnedToken
            /\ trace[i].payload.search_session_id = SubmittedId
        /\ trace[i].url = LogoutUrl =>
            trace[i].payload["log.logout"].authToken = ReturnedToken

\* a whole run under the second token and the second clock value: two status
\* requests, two pages, close, logout
C26_Witness ==
    /\ pc = "returned"
    /\ login_token = "tokB"
    /\ search_id = 1002
    /\ Cardinality(RequestsTo(StatusUrl)) = 2
    /\ Cardinality(RequestsTo(ChartUrl)) = 2
    /\ Cardinality(RequestsTo(LogoutUrl)) = 1

(***************************************************************************)
(* C27: in the earlier version get_device_event_count returns, for every   *)
(* device key that equals the key of some row of the result list, the      *)
(* observed count of such a row, whatever the position of the row, so that *)
(* every reporting device is listed with its observed count.               *)
(***************************************************************************)
C27_OldCountOfMatchingRow ==
    mpc = "old_done" =>
        /\ Len(normalized_devices_with_count) = Len(log_devices)
        /\ \A i \in 1..Len(log_devices) :
            \E j \in 1..Len(results) :
                /\ normalized_results[j] = log_devices[i]
                /\ normalized_devices_with_count[i] =
                       log_devices[i] \o <<"|">> \o strip(lower(results[j][5]))

====
